---- MODULE Spec2Model ----
(***************************************************************************)
(* Gas and temperature alarm (src/main.cpp): the main loop of the firmware *)
(* as a state machine.  One pass of the loop (a tick) is                   *)
(*     snapshot of the buttons -> alarmActivationUpdate ->                 *)
(*     alarmDeactivationUpdate -> uartTask -> printf, delay                *)
(* and pc is the position of the single thread of control in it: "start"  *)
(* before the first pass, then "activation", "deactivation", "uart" before *)
(* the call of that name, and "loop" at the printf and delay that end the  *)
(* pass.  The blocking four byte reads of the serial commands '4' and '5'  *)
(* are the positions "cmd4" and "cmd5": one step per byte read.            *)
(*                                                                         *)
(* Floats are exact rationals <<numerator, denominator>>, denominator > 0, *)
(* kept in lowest terms; rounding is not modelled.  Text written to the    *)
(* serial line changes no state of the program and is left out.            *)
(***************************************************************************)
EXTENDS Integers, Sequences, FiniteSets, TLC

VARIABLES
    pc,                     \* position in main(): see above
    mq2,                    \* level of the gas line as read at line 174
    alarmState, incorrectCode, overTempDetector,
    enterButtonState, alarmTestButtonState,
    aButtonState, bButtonState, cButtonState, dButtonState,
    numberOfIncorrectCodes, buttonBeingCompared,
    codeSequence, buttonsPressed, accumulatedTimeAlarm,
    gasDetectorState, overTempDetectorState,
    potentiometerReading,
    lm35ReadingsAverage, lm35ReadingsSum, lm35ReadingsArray, lm35TempC,
    lm35SampleIndex,        \* static local of alarmActivationUpdate
    lm35Samples,            \* what lm35.read() returned, newest last (see Read)
    leds,                   \* BusOut: 0 alarm, 1 incorrect code, 2 system blocked
    sirenPin,               \* direction of the open drain pin; its level is always LOW
    uartRx                  \* the bytes uartTask has read from the serial line in this tick

buttonVars == <<enterButtonState, alarmTestButtonState,
                aButtonState, bButtonState, cButtonState, dButtonState>>
lm35Vars   == <<lm35ReadingsAverage, lm35ReadingsSum, lm35ReadingsArray,
                lm35TempC, lm35SampleIndex, lm35Samples, overTempDetector>>
alarmVars  == <<alarmState, gasDetectorState, overTempDetectorState,
                accumulatedTimeAlarm, sirenPin>>
codeVars   == <<numberOfIncorrectCodes, codeSequence, buttonsPressed>>
uartVars   == <<incorrectCode, buttonBeingCompared, uartRx,
                potentiometerReading>>
vars == <<pc, mq2, buttonVars, lm35Vars, alarmVars, codeVars, uartVars, leds>>

----------------------------------------------------------------------------
(* Program constants                                                       *)

ON   == TRUE
OFF  == FALSE
HIGH == TRUE
LOW  == FALSE
NUL  == "NUL"

NUMBER_OF_KEYS                        == 4
BLINKING_TIME_GAS_ALARM               == 1000
BLINKING_TIME_OVER_TEMP_ALARM         == 500
BLINKING_TIME_GAS_AND_OVER_TEMP_ALARM == 100
OVER_TEMP_LEVEL                       == 50
TIME_INCREMENT_MS                     == 10
LOCKOUT_CODES                         == 5

(* Bounds of the model                                                     *)

\* NUMBER_OF_AVG_SAMPLES is 100 in the source; the window is scaled down.
NUMBER_OF_AVG_SAMPLES == 2
\* numberOfIncorrectCodes is an int that serial failures increment without
\* limit; command '4' is not sent once it has reached this value.
MaxIncorrectCodes == 6

----------------------------------------------------------------------------
(* Rationals                                                               *)

RECURSIVE GCD(_, _)
GCD(a, b) == IF b = 0 THEN a ELSE GCD(b, a % b)
Abs(n)    == IF n < 0 THEN -n ELSE n

\* the fraction in lowest terms, so that the integers stay small
Reduce(x) ==
    LET g == GCD(Abs(x[1]), x[2])
    IN  <<x[1] \div g, x[2] \div g>>

RatAdd(x, y)   == Reduce(<<x[1] * y[2] + y[1] * x[2], x[2] * y[2]>>)
RatMul(x, y)   == Reduce(<<x[1] * y[1], x[2] * y[2]>>)
RatDiv(x, y)   == Reduce(<<x[1] * y[2], x[2] * y[1]>>)
RatGt(x, y)    == x[1] * y[2] > y[1] * x[2]
RatEq(x, y)    == x[1] * y[2] = y[1] * x[2]
RatInt(n)      == <<n, 1>>
Zero           == RatInt(0)

\* !x of a C++ int or bool used as an int
BoolToInt(b)   == IF b THEN 1 ELSE 0

----------------------------------------------------------------------------
(* Pure functions of the source                                            *)

\* return ( analogReading * 3.3 / 0.01 );
analogReadingScaledWithTheLM35Formula(analogReading) ==
    RatDiv(RatMul(analogReading, <<33, 10>>), <<1, 100>>)

\* return ( tempInCelsiusDegrees * 9.0 / 5.0 + 32.0 );
celsiusToFahrenheit(tempInCelsiusDegrees) ==
    RatAdd(RatDiv(RatMul(tempInCelsiusDegrees, RatInt(9)), RatInt(5)), RatInt(32))

\* for (i = 0; i < NUMBER_OF_AVG_SAMPLES; i++) sum = sum + array[i];
RECURSIVE SumReadings(_, _)
SumReadings(array, i) ==
    IF i >= NUMBER_OF_AVG_SAMPLES THEN Zero
    ELSE RatAdd(array[i], SumReadings(array, i + 1))

\* index of the first position where the two codes differ, NUMBER_OF_KEYS if none
RECURSIVE FirstDifference(_, _, _)
FirstDifference(code, pressed, i) ==
    IF i >= NUMBER_OF_KEYS THEN NUMBER_OF_KEYS
    ELSE IF code[i] # pressed[i] THEN i
    ELSE FirstDifference(code, pressed, i + 1)

areEqualSkipsLastKey(code, pressed) ==
    FirstDifference(code, pressed, 0) >= NUMBER_OF_KEYS - 1

\* bool areEqual(): the loop returns false at the first difference
areEqual(code, pressed) ==
    FirstDifference(code, pressed, 0) = NUMBER_OF_KEYS

----------------------------------------------------------------------------
(* Arrays of NUMBER_OF_KEYS ints, indexed from 0 as in the source          *)

Keys          == 0 .. (NUMBER_OF_KEYS - 1)
Code(a, b, c, d) == [i \in Keys |-> <<a, b, c, d>>[i + 1]]
AllCodes      == [Keys -> {0, 1}]
PressedSwapsAB(a, b, c, d) ==
    Code(BoolToInt(b), BoolToInt(a), BoolToInt(c), BoolToInt(d))
\* lines 223-226: buttonsPressed[] as set from the four button variables
Pressed(a, b, c, d) ==
    Code(BoolToInt(a), BoolToInt(b), BoolToInt(c), BoolToInt(d))

\* char receivedChar: the byte read last, '\0' before the first read
receivedChar  == IF uartRx = <<>> THEN NUL ELSE uartRx[Len(uartRx)]

----------------------------------------------------------------------------
(* The environment of a run: the values the pins and the serial line can   *)
(* take.  buttons: the levels of BusIn buttons (enter, test, A, B, C, D);  *)
(* samples: lm35.read(); gas: mq2; cmds: the first byte uartTask reads;    *)
(* words4, words5: the four bytes that follow a '4' and a '5'; pots:       *)
(* potentiometer.read().                                                   *)

Button(e, t, a, b, c, d) ==
    [enter |-> e, test |-> t, a |-> a, b |-> b, c |-> c, d |-> d]

IsPrefix(s, w) == Len(s) <= Len(w) /\ \A i \in 1 .. Len(s) : s[i] = w[i]

----------------------------------------------------------------------------
(* Init: the globals as initialised at lines 65-89, after inputsInit() and *)
(* outputsInit().  The button variables are set from the pins before the   *)
(* pins are configured (lines 69-74).                                      *)

Init(env) ==
    /\ pc = "start"
    /\ mq2 = HIGH
    /\ alarmState = OFF
    /\ incorrectCode = FALSE
    /\ overTempDetector = OFF
    /\ \E b \in env.buttons :
          /\ enterButtonState = b.enter
          /\ alarmTestButtonState = b.test
          /\ aButtonState = b.a
          /\ bButtonState = b.b
          /\ cButtonState = b.c
          /\ dButtonState = b.d
    /\ numberOfIncorrectCodes = 0
    /\ buttonBeingCompared = 0
    /\ codeSequence = Code(1, 1, 0, 0)
    /\ buttonsPressed = Code(0, 0, 0, 0)
    /\ accumulatedTimeAlarm = 0
    /\ gasDetectorState = OFF
    /\ overTempDetectorState = OFF
    /\ potentiometerReading = Zero
    /\ lm35ReadingsAverage = Zero
    /\ lm35ReadingsSum = Zero
    /\ lm35ReadingsArray = [i \in 0 .. (NUMBER_OF_AVG_SAMPLES - 1) |-> Zero]
    /\ lm35TempC = Zero
    /\ lm35SampleIndex = 0
    /\ lm35Samples = <<>>
    /\ leds = [i \in 0 .. 2 |-> OFF]
    /\ sirenPin = "input"
    /\ uartRx = <<>>

----------------------------------------------------------------------------
(* main(), lines 114-119: the snapshot of the buttons.  The printf and the *)
(* delay that end the previous pass (lines 123-126) change no state.  The  *)
(* record of the bytes read in the previous pass is dropped here.          *)

Snapshot(env) ==
    /\ pc \in {"start", "loop"}
    /\ \E b \in env.buttons :
          /\ enterButtonState' = b.enter
          /\ alarmTestButtonState' = b.test
          /\ aButtonState' = b.a
          /\ bButtonState' = b.b
          /\ cButtonState' = b.c
          /\ dButtonState' = b.d
    /\ uartRx' = <<>>
    /\ pc' = "activation"
    /\ UNCHANGED <<mq2, lm35Vars, alarmVars, codeVars, leds,
                   incorrectCode, buttonBeingCompared, potentiometerReading>>

----------------------------------------------------------------------------
(* alarmActivationUpdate(), lines 150-214                                  *)

\* line 155: the record of the values lm35.read() has returned, cut to the
\* newest NUMBER_OF_AVG_SAMPLES of them
Read(samples, sample) ==
    IF Len(samples) < NUMBER_OF_AVG_SAMPLES
        THEN Append(samples, sample)
        ELSE Append(Tail(samples), sample)

NextSampleIndexWrapsEarly(i) ==
    IF i + 1 >= NUMBER_OF_AVG_SAMPLES - 1 THEN 0 ELSE i + 1

\* lines 156-159: the index advances and wraps
NextSampleIndex(i) ==
    IF i + 1 >= NUMBER_OF_AVG_SAMPLES THEN 0 ELSE i + 1

OverTempAtThreshold(tempC) ==
    RatGt(tempC, RatInt(OVER_TEMP_LEVEL)) \/ RatEq(tempC, RatInt(OVER_TEMP_LEVEL))

\* lines 168-172
OverTemp(tempC) == RatGt(tempC, RatInt(OVER_TEMP_LEVEL))

LatchedFollowsCondition(latch, condition, testButton) ==
    condition \/ testButton

LatchedIgnoringTestButton(latch, condition, testButton) ==
    latch \/ condition

\* lines 174-186: a detector state is only ever set to ON by the three tests
Latched(latch, condition, testButton) ==
    latch \/ condition \/ testButton

ActivatedIgnoringTestButton(alarm, gasLine, overTemp, testButton) ==
    alarm \/ ~gasLine \/ overTemp

\* lines 174-186: alarmState after the three activation tests
Activated(alarm, gasLine, overTemp, testButton) ==
    alarm \/ ~gasLine \/ overTemp \/ testButton

BlinkDueStrictlyAfter(gas, overTemp, accumulated) ==
    IF gas /\ overTemp
        THEN accumulated > BLINKING_TIME_GAS_AND_OVER_TEMP_ALARM
    ELSE IF gas
        THEN accumulated > BLINKING_TIME_GAS_ALARM
    ELSE IF overTemp
        THEN accumulated > BLINKING_TIME_OVER_TEMP_ALARM
    ELSE FALSE

BlinkDueAlwaysFastest(gas, overTemp, accumulated) ==
    (gas \/ overTemp) /\ accumulated >= BLINKING_TIME_GAS_AND_OVER_TEMP_ALARM

\* lines 192-207: whether the alarm LED toggles at this accumulated time
BlinkDue(gas, overTemp, accumulated) ==
    IF gas /\ overTemp
        THEN accumulated >= BLINKING_TIME_GAS_AND_OVER_TEMP_ALARM
    ELSE IF gas
        THEN accumulated >= BLINKING_TIME_GAS_ALARM
    ELSE IF overTemp
        THEN accumulated >= BLINKING_TIME_OVER_TEMP_ALARM
    ELSE FALSE

alarmActivationUpdate(env) ==
    /\ pc = "activation"
    /\ \E sample \in env.samples, gasLine \in env.gas :
        LET array    == [lm35ReadingsArray EXCEPT ![lm35SampleIndex] = sample]
            sum      == SumReadings(array, 0)
            average  == RatDiv(sum, RatInt(NUMBER_OF_AVG_SAMPLES))
            tempC    == analogReadingScaledWithTheLM35Formula(average)
            overTemp == OverTemp(tempC)
            gas      == Latched(gasDetectorState, ~gasLine, alarmTestButtonState)
            temp     == Latched(overTempDetectorState, overTemp,
                                alarmTestButtonState)
            alarm    == Activated(alarmState, gasLine, overTemp, alarmTestButtonState)
            time     == accumulatedTimeAlarm + TIME_INCREMENT_MS
            toggle   == BlinkDue(gas, temp, time)
        IN  /\ mq2' = gasLine
            /\ lm35ReadingsArray' = array
            /\ lm35SampleIndex' = NextSampleIndex(lm35SampleIndex)
            /\ lm35Samples' = Read(lm35Samples, sample)
            /\ lm35ReadingsSum' = sum
            /\ lm35ReadingsAverage' = average
            /\ lm35TempC' = tempC
            /\ overTempDetector' = overTemp
            /\ alarmState' = alarm
            /\ IF alarm
                 THEN /\ gasDetectorState' = gas
                      /\ overTempDetectorState' = temp
                      /\ sirenPin' = "output"
                      /\ accumulatedTimeAlarm' = IF toggle THEN 0 ELSE time
                      /\ leds' = IF toggle THEN [leds EXCEPT ![0] = ~leds[0]] ELSE leds
                 ELSE /\ gasDetectorState' = OFF
                      /\ overTempDetectorState' = OFF
                      /\ sirenPin' = "input"
                      /\ accumulatedTimeAlarm' = accumulatedTimeAlarm
                      /\ leds' = [leds EXCEPT ![0] = OFF]
    /\ pc' = "deactivation"
    /\ UNCHANGED <<buttonVars, codeVars, uartVars>>

----------------------------------------------------------------------------
(* alarmDeactivationUpdate(), lines 216-238                                *)

\* line 218, negated: the else branch, which lights leds[2]
LockedOut(incorrectCodes) == ~(incorrectCodes < LOCKOUT_CODES)

ClearIncorrectIgnoringEnter(a, b, c, d, enter) == a /\ b /\ c /\ d

ClearIncorrectNeedsEnter(a, b, c, d, enter) == a /\ b /\ c /\ d /\ enter

\* line 219
ClearIncorrect(a, b, c, d, enter) == a /\ b /\ c /\ d /\ ~enter

ButtonEntryIgnoringLed(enter, incorrectLed, alarm) == enter /\ alarm

\* line 222
ButtonEntry(enter, incorrectLed, alarm) == enter /\ ~incorrectLed /\ alarm

alarmDeactivationUpdate ==
    /\ pc = "deactivation"
    /\ IF ~LockedOut(numberOfIncorrectCodes)
         THEN LET led1    == IF ClearIncorrect(aButtonState, bButtonState,
                                               cButtonState, dButtonState,
                                               enterButtonState)
                               THEN OFF ELSE leds[1]
                  pressed == Pressed(aButtonState, bButtonState,
                                     cButtonState, dButtonState)
              IN  IF ButtonEntry(enterButtonState, led1, alarmState)
                    THEN /\ buttonsPressed' = pressed
                         /\ IF areEqual(codeSequence, pressed)
                              THEN /\ alarmState' = OFF
                                   /\ numberOfIncorrectCodes' = 0
                                   /\ leds' = [leds EXCEPT ![1] = led1]
                              ELSE /\ alarmState' = alarmState
                                   /\ numberOfIncorrectCodes' = numberOfIncorrectCodes + 1
                                   /\ leds' = [leds EXCEPT ![1] = ON]
                    ELSE /\ leds' = [leds EXCEPT ![1] = led1]
                         /\ UNCHANGED <<buttonsPressed, alarmState, numberOfIncorrectCodes>>
         ELSE /\ leds' = [leds EXCEPT ![2] = ON]
              /\ UNCHANGED <<buttonsPressed, alarmState, numberOfIncorrectCodes>>
    /\ pc' = "uart"
    /\ UNCHANGED <<mq2, buttonVars, lm35Vars, uartVars, codeSequence,
                   gasDetectorState, overTempDetectorState,
                   accumulatedTimeAlarm, sirenPin>>

----------------------------------------------------------------------------
(* uartTask(), lines 240-374                                               *)

\* the bytes read after the command byte
Arguments(rx) == SubSeq(rx, 2, Len(rx))

\* the bytes the serial line can deliver next, given the arguments read so far
NextBytes(words, args) ==
    {w[Len(args) + 1] : w \in {v \in words : IsPrefix(args, v)}}

MoreBytesStopsAfterThree(compared) == compared < NUMBER_OF_KEYS - 1

\* lines 285 and 328: the condition of the loops that read the four bytes
MoreBytes(compared) == compared < NUMBER_OF_KEYS

ByteMismatchAcceptsAnyDigit(ch, digit) == ~(ch \in {"0", "1"})

\* lines 292-302: whether the byte read makes the code incorrect
ByteMismatch(ch, digit) ==
    IF ch = "1" THEN digit # 1
    ELSE IF ch = "0" THEN digit # 0
    ELSE TRUE

NewDigitOtherIsZero(ch, digit) == IF ch = "1" THEN 1 ELSE 0

NewDigitInverted(ch, digit) ==
    IF ch = "1" THEN 0
    ELSE IF ch = "0" THEN 1
    ELSE digit

\* lines 335-339: the digit of the code after the byte read
NewDigit(ch, digit) ==
    IF ch = "1" THEN 1
    ELSE IF ch = "0" THEN 0
    ELSE digit

DispatchFallsThrough(c) ==
    IF c \in {"3", "4"} THEN "4"
    ELSE IF c = "5" THEN "5"
    ELSE IF c \in {"p", "P"} THEN "p"
    ELSE "report"

\* line 247: the case of the switch a byte selects.  '1', '2', '3', 'c', 'C',
\* 'f', 'F' and the default case only write to the serial line.
Dispatch(c) ==
    IF c = "4" THEN "4"
    ELSE IF c = "5" THEN "5"
    ELSE IF c \in {"p", "P"} THEN "p"
    ELSE "report"

\* lines 245-282, 317-326, 345-372: the poll and the dispatch on the first byte
uartTask(env) ==
    /\ pc = "uart"
    /\ \/ \* uartUsb.readable() is false
          /\ pc' = "loop"
          /\ UNCHANGED uartVars
       \/ \E c \in env.cmds :
          /\ uartRx' = <<c>>
          /\ CASE Dispatch(c) = "4" ->
                    /\ incorrectCode' = FALSE
                    /\ buttonBeingCompared' = 0
                    /\ pc' = "cmd4"
                    /\ UNCHANGED potentiometerReading
               [] Dispatch(c) = "5" ->
                    /\ buttonBeingCompared' = 0
                    /\ pc' = "cmd5"
                    /\ UNCHANGED <<incorrectCode, potentiometerReading>>
               [] Dispatch(c) = "p" ->
                    /\ potentiometerReading' \in env.pots
                    /\ pc' = "loop"
                    /\ UNCHANGED <<incorrectCode, buttonBeingCompared>>
               [] OTHER ->
                    /\ pc' = "loop"
                    /\ UNCHANGED <<incorrectCode, buttonBeingCompared,
                                   potentiometerReading>>
    /\ UNCHANGED <<mq2, buttonVars, lm35Vars, alarmVars, codeVars, leds>>

\* lines 285-315: one pass of the loop of command '4', and what follows the
\* loop once the fourth byte is read
uartCommand4(env) ==
    /\ pc = "cmd4"
    /\ \E ch \in NextBytes(env.words4, Arguments(uartRx)) :
        LET incorrect == incorrectCode
                         \/ ByteMismatch(ch, codeSequence[buttonBeingCompared])
            compared  == buttonBeingCompared + 1
        IN  /\ incorrect => numberOfIncorrectCodes < MaxIncorrectCodes
            /\ uartRx' = Append(uartRx, ch)
            /\ incorrectCode' = incorrect
            /\ buttonBeingCompared' = compared
            /\ IF MoreBytes(compared)
                 THEN /\ pc' = "cmd4"
                      /\ UNCHANGED <<alarmState, leds, numberOfIncorrectCodes>>
                 ELSE /\ pc' = "loop"
                      /\ IF incorrect = FALSE
                           THEN /\ alarmState' = OFF
                                /\ leds' = [leds EXCEPT ![1] = OFF]
                                /\ numberOfIncorrectCodes' = 0
                           ELSE /\ alarmState' = alarmState
                                /\ leds' = [leds EXCEPT ![1] = ON]
                                /\ numberOfIncorrectCodes' = numberOfIncorrectCodes + 1
    /\ UNCHANGED <<mq2, buttonVars, lm35Vars, codeSequence, buttonsPressed,
                   gasDetectorState, overTempDetectorState,
                   accumulatedTimeAlarm, sirenPin, potentiometerReading>>

\* lines 328-343: one pass of the loop of command '5'
uartCommand5(env) ==
    /\ pc = "cmd5"
    /\ \E ch \in NextBytes(env.words5, Arguments(uartRx)) :
        LET compared == buttonBeingCompared + 1
        IN  /\ uartRx' = Append(uartRx, ch)
            /\ codeSequence' =
                 [codeSequence EXCEPT ![buttonBeingCompared] = NewDigit(ch, @)]
            /\ buttonBeingCompared' = compared
            /\ pc' = IF MoreBytes(compared) THEN "cmd5" ELSE "loop"
    /\ UNCHANGED <<mq2, buttonVars, lm35Vars, alarmVars, leds,
                   numberOfIncorrectCodes, buttonsPressed,
                   incorrectCode, potentiometerReading>>

----------------------------------------------------------------------------
(* Environments                                                            *)

T == TRUE
F == FALSE
Levels      == {LOW, HIGH}
Word(a, b, c, d) == <<a, b, c, d>>

\* lm35.read() is a fraction of 3.3 V: 0 degrees, and 120 degrees (one such
\* sample in a window of up to three is over temperature)
Cold        == <<0, 330>>
Hot         == <<120, 330>>

\* 50 degrees, the threshold itself, and 60 degrees
Fifty       == <<50, 330>>
Sixty       == <<60, 330>>

\* Code entry: no gas, no heat, the alarm is set off by the test button.
\* The buttons: none, test, enter with 1100, enter with 1010, enter with
\* 1101, A-D without enter.  '4' and '5' are followed by 1100, 1010 or a
\* word with bytes that are no digits.
EnvCode ==
    [buttons |-> {Button(F, F, F, F, F, F), Button(F, T, F, F, F, F),
                  Button(T, F, T, T, F, F), Button(T, F, T, F, T, F),
                  Button(T, F, T, T, F, T), Button(F, F, T, T, T, T)},
     samples |-> {Cold},
     gas     |-> {HIGH},
     cmds    |-> {"1", "4", "5"},
     words4  |-> {Word("1", "1", "0", "0"), Word("1", "0", "1", "0"),
                  Word("1", "x", "0", "0")},
     words5  |-> {Word("1", "1", "0", "0"), Word("1", "0", "1", "0"),
                  Word("1", "x", "x", "0")},
     pots    |-> {Zero}]

\* Sensors: gas and heat come and go; the buttons: none, test, enter with
\* 1100; '4' is followed by 1100.
EnvSensors ==
    [buttons |-> {Button(F, F, F, F, F, F), Button(F, T, F, F, F, F),
                  Button(T, F, T, T, F, F)},
     samples |-> {Cold, Hot},
     gas     |-> Levels,
     cmds    |-> {"4"},
     words4  |-> {Word("1", "1", "0", "0")},
     words5  |-> {},
     pots    |-> {Zero}]

\* Temperature: no gas, no test button; the sensor reads 0, 50 or 60
\* degrees; the buttons: none, enter with 1100; the serial line asks for
\* the temperature.
EnvTemperature ==
    [buttons |-> {Button(F, F, F, F, F, F), Button(T, F, T, T, F, F)},
     samples |-> {Cold, Fifty, Sixty},
     gas     |-> {HIGH},
     cmds    |-> {"c", "f"},
     words4  |-> {},
     words5  |-> {},
     pots    |-> {Zero}]

\* potentiometer.read(): half way
Half        == <<1, 2>>

\* Reports: the alarm is set off by the test button; the buttons: none,
\* test, enter with 1010, A-D without enter; every command but '4' and '5'
\* and a byte that is no command.
EnvReport ==
    [buttons |-> {Button(F, F, F, F, F, F), Button(F, T, F, F, F, F),
                  Button(T, F, T, F, T, F), Button(F, F, T, T, T, T)},
     samples |-> {Cold},
     gas     |-> {HIGH},
     cmds    |-> {"1", "2", "3", "p", "P", "c", "C", "f", "F", "x"},
     words4  |-> {},
     words5  |-> {},
     pots    |-> {Zero, Half}]

----------------------------------------------------------------------------
(* Specifications                                                          *)

InitCode == Init(EnvCode)
NextCode ==
    \/ Snapshot(EnvCode)
    \/ alarmActivationUpdate(EnvCode)
    \/ alarmDeactivationUpdate
    \/ uartTask(EnvCode)
    \/ uartCommand4(EnvCode)
    \/ uartCommand5(EnvCode)
Spec == InitCode /\ [][NextCode]_vars

InitSensors == Init(EnvSensors)
NextSensors ==
    \/ Snapshot(EnvSensors)
    \/ alarmActivationUpdate(EnvSensors)
    \/ alarmDeactivationUpdate
    \/ uartTask(EnvSensors)
    \/ uartCommand4(EnvSensors)
SpecSensors == InitSensors /\ [][NextSensors]_vars

InitTemperature == Init(EnvTemperature)
NextTemperature ==
    \/ Snapshot(EnvTemperature)
    \/ alarmActivationUpdate(EnvTemperature)
    \/ alarmDeactivationUpdate
    \/ uartTask(EnvTemperature)
SpecTemperature == InitTemperature /\ [][NextTemperature]_vars

InitReport == Init(EnvReport)
NextReport ==
    \/ Snapshot(EnvReport)
    \/ alarmActivationUpdate(EnvReport)
    \/ alarmDeactivationUpdate
    \/ uartTask(EnvReport)
SpecReport == InitReport /\ [][NextReport]_vars

----------------------------------------------------------------------------
(* Vocabulary of the claims                                                *)

ARMED    == alarmState = ON
DISARMED == alarmState = OFF

\* the digit a byte stands for, and the bytes of a code
DigitChar(d)  == IF d = 1 THEN "1" ELSE "0"
WordOf(code)  == [i \in 1 .. NUMBER_OF_KEYS |-> DigitChar(code[i - 1])]

\* what the buttons A-D of the snapshot spell
ButtonsSpell(code) ==
    /\ code[0] = BoolToInt(aButtonState)
    /\ code[1] = BoolToInt(bButtonState)
    /\ code[2] = BoolToInt(cButtonState)
    /\ code[3] = BoolToInt(dButtonState)

\* a step of alarmDeactivationUpdate that compares the buttons with the code
ButtonComparison ==
    /\ pc = "deactivation"
    /\ numberOfIncorrectCodes < 5
    /\ enterButtonState /\ ~leds[1] /\ ARMED

\* a step in which a code comparison succeeds: by the buttons, or by the
\* fourth byte of a serial '4' whose four bytes are the code
ButtonComparisonSucceeds == ButtonComparison /\ ButtonsSpell(codeSequence)
SerialComparisonSucceeds ==
    /\ pc = "cmd4"
    /\ uartRx' = <<"4">> \o WordOf(codeSequence)
ComparisonSucceeds == ButtonComparisonSucceeds \/ SerialComparisonSucceeds

\* the activation conditions as alarmActivationUpdate saw them in this tick
ActivationCondition == ~mq2 \/ overTempDetector \/ alarmTestButtonState

----------------------------------------------------------------------------
(* C1: in every tick, if at the activation step the gas line reads low, or *)
(* the averaged temperature is over the threshold, or the test button is   *)
(* held, the alarm is ARMED when alarmActivationUpdate returns, whatever   *)
(* it was before; and no later step of that tick turns it off unless a     *)
(* code comparison (button or serial '4') succeeds in that step.           *)

C1_ActivationArms ==
    [][ /\ (pc = "activation" /\ ActivationCondition') => ARMED'
        /\ (/\ pc \in {"deactivation", "uart", "cmd4"}
            /\ ActivationCondition /\ ARMED /\ DISARMED')
              => ComparisonSucceeds ]_vars

\* gas alone has armed the alarm in this tick
C1_Witness ==
    /\ pc = "loop"
    /\ ~mq2 /\ ~overTempDetector /\ ~alarmTestButtonState
    /\ ARMED

----------------------------------------------------------------------------
(* C2: the alarm goes from ARMED to DISARMED only in a step where a code   *)
(* comparison succeeds: a button entry equal to the code, or a serial '4'  *)
(* entry of four bytes equal to the code.                                  *)

C2_DisarmOnlyByCode ==
    [][ (ARMED /\ DISARMED') => ComparisonSucceeds ]_vars

\* the buttons have just disarmed the alarm (the siren is not yet released)
C2_Witness ==
    /\ pc = "uart"
    /\ DISARMED /\ sirenPin = "output"
    /\ enterButtonState /\ ButtonsSpell(codeSequence)
    /\ buttonsPressed = codeSequence

----------------------------------------------------------------------------
(* C3: when the attempt counter is below 5, enter is pressed, the          *)
(* incorrect LED is off, the alarm is ARMED and the buttons A-D equal the  *)
(* code, then after alarmDeactivationUpdate the alarm is DISARMED and the  *)
(* attempt counter is 0.                                                   *)

C3_ButtonMatchDisarms ==
    [][ (ButtonComparison /\ ButtonsSpell(codeSequence))
          => (DISARMED' /\ numberOfIncorrectCodes' = 0) ]_vars

\* a code programmed over the serial line, entered after three failures
C3_Witness ==
    /\ pc = "deactivation"
    /\ ButtonComparison /\ ButtonsSpell(codeSequence)
    /\ codeSequence = Code(1, 0, 1, 0)
    /\ numberOfIncorrectCodes = 3

----------------------------------------------------------------------------
(* C4: when the attempt counter is below 5, enter is pressed, the          *)
(* incorrect LED is off, the alarm is ARMED and the buttons A-D differ     *)
(* from the code, then after alarmDeactivationUpdate the incorrect LED is  *)
(* on, the counter is one more and the alarm is still ARMED; and while     *)
(* the incorrect LED is on and enter is held, alarmDeactivationUpdate      *)
(* leaves the counter alone.                                               *)

C4_ButtonMismatchCounts ==
    [][ /\ (ButtonComparison /\ ~ButtonsSpell(codeSequence))
              => /\ leds'[1] = ON
                 /\ numberOfIncorrectCodes' = numberOfIncorrectCodes + 1
                 /\ ARMED'
        /\ (pc = "deactivation" /\ leds[1] = ON /\ enterButtonState)
              => /\ numberOfIncorrectCodes' = numberOfIncorrectCodes
                 /\ leds'[1] = ON ]_vars

\* enter is still held in a tick after the failed entry
C4_Witness ==
    /\ pc = "deactivation"
    /\ leds[1] = ON /\ enterButtonState /\ ARMED
    /\ ~ButtonsSpell(codeSequence)
    /\ buttonsPressed = Pressed(aButtonState, bButtonState,
                                cButtonState, dButtonState)
    /\ numberOfIncorrectCodes = 1

----------------------------------------------------------------------------
(* C5: after 5 consecutive failed disarm attempts (button, serial '4' or a *)
(* mix) the lockout LED asserts, and once asserted it stays asserted;      *)
(* there is no reset path.  As an action property: the lockout LED is      *)
(* never turned off, and a counter that has reached 5 does not fall below  *)
(* 5 before the lockout LED is on.                                         *)

C5_LockoutAsserts ==
    [][ /\ leds[2] = ON => leds'[2] = ON
        /\ (numberOfIncorrectCodes >= 5 /\ leds[2] = OFF)
              => numberOfIncorrectCodes' >= 5 ]_vars

----------------------------------------------------------------------------
(* C6: once the attempt counter has reached 5, button entry is gated out   *)
(* for good.  The lockout LED is lit only by a counter of 5 or more and is *)
(* never turned off, so: once the lockout LED is on, no step of            *)
(* alarmDeactivationUpdate compares the buttons with the code, disarms     *)
(* the alarm or changes the counter.                                       *)

C6_LockoutGatesButtons ==
    [][ (pc = "deactivation" /\ leds[2] = ON)
          => /\ buttonsPressed' = buttonsPressed
             /\ alarmState' = alarmState
             /\ numberOfIncorrectCodes' = numberOfIncorrectCodes ]_vars

----------------------------------------------------------------------------
(* C7: serial command '4' always consumes exactly 4 following bytes, also  *)
(* after an early mismatch.  If the four bytes are the digits of the code  *)
(* the alarm becomes DISARMED, the attempt counter 0 and the incorrect LED *)
(* off; otherwise the incorrect LED is turned on, the counter increases by *)
(* exactly 1 and the alarm state is unchanged.                             *)

C7_SerialEntry ==
    [][ /\ (pc = "uart" /\ pc' = "cmd4") => uartRx' = <<"4">>
        /\ pc = "cmd4" =>
             /\ Len(uartRx') = Len(uartRx) + 1
             /\ IF Len(uartRx') < 1 + 4
                  THEN /\ pc' = "cmd4"
                       /\ UNCHANGED <<alarmState, numberOfIncorrectCodes, leds>>
                  ELSE /\ pc' = "loop"
                       /\ IF Arguments(uartRx') = WordOf(codeSequence)
                            THEN /\ DISARMED'
                                 /\ numberOfIncorrectCodes' = 0
                                 /\ leds'[1] = OFF
                            ELSE /\ leds'[1] = ON
                                 /\ numberOfIncorrectCodes'
                                      = numberOfIncorrectCodes + 1
                                 /\ alarmState' = alarmState ]_vars

\* a sixth failure, by a byte that is no digit, while the alarm is DISARMED
C7_Witness ==
    /\ pc = "loop"
    /\ uartRx = <<"4", "1", "x", "0", "0">>
    /\ codeSequence = Code(1, 1, 0, 0)
    /\ leds[1] = ON /\ numberOfIncorrectCodes = 6 /\ DISARMED

----------------------------------------------------------------------------
(* C8: serial command '5' followed by bytes b1..b4 sets digit i of the     *)
(* code to 1 if bi is '1', to 0 if bi is '0', and leaves it for any other  *)
(* byte, in every alarm state and at every attempt counter value; alarm    *)
(* state, attempt counter, latch flags and the three LEDs are unchanged.   *)
(* The code is always four digits, each 0 or 1.                            *)

C8_Frame ==
    UNCHANGED <<alarmState, numberOfIncorrectCodes, gasDetectorState,
                overTempDetectorState, leds>>

C8_SerialProgram ==
    /\ [](codeSequence \in AllCodes)
    /\ [][ /\ (pc = "uart" /\ pc' = "cmd5")
                 => (uartRx' = <<"5">> /\ codeSequence' = codeSequence /\ C8_Frame)
           /\ pc = "cmd5" =>
                LET i  == Len(uartRx) - 1
                    bi == uartRx'[Len(uartRx')]
                IN  /\ Len(uartRx') = Len(uartRx) + 1
                    /\ pc' = (IF i < 3 THEN "cmd5" ELSE "loop")
                    /\ codeSequence'[i] = (IF bi = "1" THEN 1
                                           ELSE IF bi = "0" THEN 0
                                           ELSE codeSequence[i])
                    /\ \A j \in Keys \ {i} : codeSequence'[j] = codeSequence[j]
                    /\ C8_Frame ]_vars

\* in lockout, with the alarm ARMED, 1010 has been overwritten by 1xx0
C8_Witness ==
    /\ pc = "loop"
    /\ uartRx = <<"5", "1", "x", "x", "0">>
    /\ codeSequence = Code(1, 0, 1, 0)
    /\ leds[2] = ON /\ numberOfIncorrectCodes >= 5 /\ ARMED

----------------------------------------------------------------------------
(* C9: round trip of programming and entry.  After serial '5' with the     *)
(* bytes of a 4-digit binary code c the code is c; no step outside a '5'   *)
(* changes the code (ticks, read-only commands, '4'); and a serial '4'     *)
(* with the bytes of the code is judged correct and clears the alarm       *)
(* (DISARMED, attempt counter 0).                                          *)

C9_Binary(word) == \A i \in 1 .. Len(word) : word[i] \in {"0", "1"}

C9_RoundTrip ==
    [][ /\ (pc = "cmd5" /\ pc' = "loop" /\ C9_Binary(Arguments(uartRx')))
              => WordOf(codeSequence') = Arguments(uartRx')
        /\ pc # "cmd5" => codeSequence' = codeSequence
        /\ (pc = "cmd4" /\ Arguments(uartRx') = WordOf(codeSequence))
              => /\ incorrectCode' = FALSE
                 /\ DISARMED'
                 /\ numberOfIncorrectCodes' = 0 ]_vars

\* 1010, programmed earlier, has just disarmed the alarm over the serial line
C9_Witness ==
    /\ pc = "loop"
    /\ uartRx = <<"4", "1", "0", "1", "0">>
    /\ codeSequence = Code(1, 0, 1, 0)
    /\ DISARMED /\ sirenPin = "output"
    /\ numberOfIncorrectCodes = 0

----------------------------------------------------------------------------
(* C10: blink cadence.  While the alarm is ARMED each tick adds 10 ms to   *)
(* the accumulator, and the alarm LED toggles, with the accumulator reset  *)
(* to 0, exactly when the accumulator has reached the cadence of the       *)
(* latch combination: 100 ms with gas and over temperature, 1000 ms with   *)
(* gas only, 500 ms with over temperature only.  With the latch            *)
(* combination unchanged the toggle comes at exactly the cadence.          *)

C10_Cadence(gas, overTemp) ==
    IF gas /\ overTemp THEN 100 ELSE IF gas THEN 1000 ELSE 500

C10_BlinkCadence ==
    [][ (pc = "activation" /\ ARMED') =>
          LET time    == accumulatedTimeAlarm + 10
              cadence == C10_Cadence(gasDetectorState', overTempDetectorState')
          IN  /\ IF time >= cadence
                   THEN accumulatedTimeAlarm' = 0 /\ leds'[0] = ~leds[0]
                   ELSE accumulatedTimeAlarm' = time /\ leds'[0] = leds[0]
              /\ (/\ ARMED /\ time >= cadence
                  /\ UNCHANGED <<gasDetectorState, overTempDetectorState>>)
                    => time = cadence ]_vars

\* gas only: the alarm LED has just been toggled on after 1000 ms
C10_Witness ==
    /\ pc = "deactivation"
    /\ ARMED /\ gasDetectorState /\ ~overTempDetectorState
    /\ accumulatedTimeAlarm = 0 /\ leds[0] = ON

----------------------------------------------------------------------------
(* C11: in every reachable state in which the alarm is DISARMED, the       *)
(* states right after a button or serial disarm included, the siren pin   *)
(* is released (input mode), the alarm LED is off and both latch flags     *)
(* are false.                                                              *)

C11_DisarmedIsQuiet ==
    DISARMED => /\ sirenPin = "input"
                /\ leds[0] = OFF
                /\ gasDetectorState = OFF
                /\ overTempDetectorState = OFF

----------------------------------------------------------------------------
(* C12: the latch flags are reset when the alarm returns to DISARMED: in   *)
(* every step that takes the alarm from DISARMED to ARMED both flags are   *)
(* false before the step, and after it each flag is set only if its        *)
(* condition (gas line low, over temperature, test button) held in that    *)
(* tick; also when that step is in the tick right after the disarm.        *)

C12_LatchesResetOnDisarm ==
    [][ (DISARMED /\ ARMED') =>
          /\ gasDetectorState = OFF /\ overTempDetectorState = OFF
          /\ gasDetectorState' = (~mq2' \/ alarmTestButtonState')
          /\ overTempDetectorState'
               = (overTempDetector' \/ alarmTestButtonState') ]_vars

----------------------------------------------------------------------------
(* C13: a latch flag stays set for the whole alarm cycle: a step from a    *)
(* state where the alarm is ARMED and the gas latch (the over-temp latch)  *)
(* is true to a state where the alarm is still ARMED leaves that latch     *)
(* true, also when the gas line is inactive again, the temperature is      *)
(* below the threshold and the test button is released.                    *)

C13_LatchesHold ==
    [][ /\ (ARMED /\ gasDetectorState /\ ARMED') => gasDetectorState'
        /\ (ARMED /\ overTempDetectorState /\ ARMED')
              => overTempDetectorState' ]_vars

\* armed by gas alone in an earlier tick; in this tick no condition holds
C13_Witness ==
    /\ pc = "deactivation"
    /\ ARMED /\ gasDetectorState /\ ~overTempDetectorState
    /\ mq2 = HIGH /\ ~overTempDetector /\ ~alarmTestButtonState

----------------------------------------------------------------------------
(* C14: commands '4' and '5' block the scheduler until 4 bytes have been   *)
(* received.  From the dispatch (one byte read) on, every step is the read *)
(* of one more byte; no such step takes a sensor sample or a button        *)
(* snapshot, evaluates a button entry, or changes the latch flags, the     *)
(* blink accumulator, the alarm LED or the siren; before the fourth byte   *)
(* the alarm state, the LEDs and the attempt counter do not change either  *)
(* and the tick does not go on: it ends only with the fourth byte.         *)

C14_Suspended ==
    /\ UNCHANGED <<mq2, lm35Vars, buttonVars, buttonsPressed>>
    /\ UNCHANGED <<gasDetectorState, overTempDetectorState,
                   accumulatedTimeAlarm, sirenPin>>
    /\ leds'[0] = leds[0]

C14_Blocking ==
    [][ /\ (pc = "uart" /\ pc' \in {"cmd4", "cmd5"}) => Len(uartRx') = 1
        /\ pc \in {"cmd4", "cmd5"} =>
             /\ Len(uartRx') = Len(uartRx) + 1
             /\ C14_Suspended
             /\ IF Len(uartRx') < 1 + 4
                  THEN /\ pc' = pc
                       /\ UNCHANGED <<alarmState, leds, numberOfIncorrectCodes>>
                  ELSE pc' = "loop" ]_vars

\* three bytes of a '5' have been read while the alarm is ARMED and blinking
C14_Witness ==
    /\ pc = "cmd5"
    /\ Len(uartRx) = 1 + 3
    /\ ARMED /\ leds[0] = ON /\ accumulatedTimeAlarm > 0

----------------------------------------------------------------------------
(* C15: clearing the incorrect indicator is independent of comparison: in  *)
(* any tick in which the buttons A, B, C and D all read pressed and enter  *)
(* reads released, the incorrect LED is off after alarmDeactivationUpdate, *)
(* in every alarm state and for every value of the attempt counter.        *)

C15_AllPressedEnterReleased ==
    /\ pc = "deactivation"
    /\ aButtonState /\ bButtonState /\ cButtonState /\ dButtonState
    /\ ~enterButtonState

C15_ClearIncorrect ==
    [][ C15_AllPressedEnterReleased => leds'[1] = OFF ]_vars

\* As the code has it: the rule is inside the test of the attempt counter.
\* With the counter below 5 the incorrect LED is off afterwards, in every
\* alarm state; with the counter at 5 or more the LED is left as it is.
C15_ClearIncorrectBelowLockout ==
    [][ C15_AllPressedEnterReleased =>
          IF numberOfIncorrectCodes < 5
            THEN leds'[1] = OFF
            ELSE leds'[1] = leds[1] ]_vars

\* the LED of the fourth failed entry is about to be cleared
C15_Witness ==
    /\ C15_AllPressedEnterReleased
    /\ leds[1] = ON /\ numberOfIncorrectCodes = 4 /\ ARMED

----------------------------------------------------------------------------
(* C16: the rolling average is a sliding window.  Once N samples have been *)
(* read (N = NUMBER_OF_AVG_SAMPLES) the average computed in a tick is the  *)
(* arithmetic mean of exactly the last N samples read, whatever the buffer *)
(* was filled with before; each tick writes the new sample at the current  *)
(* index, then the index advances by one and wraps to 0, so it always      *)
(* stays within 0..N-1.                                                    *)

RECURSIVE C16_Sum(_)
C16_Sum(samples) ==
    IF samples = <<>> THEN Zero
    ELSE RatAdd(Head(samples), C16_Sum(Tail(samples)))

C16_Mean(samples) == RatDiv(C16_Sum(samples), RatInt(Len(samples)))

C16_SlidingWindow ==
    /\ [](lm35SampleIndex \in 0 .. (NUMBER_OF_AVG_SAMPLES - 1))
    /\ [](Len(lm35Samples) = NUMBER_OF_AVG_SAMPLES
            => RatEq(lm35ReadingsAverage, C16_Mean(lm35Samples)))
    /\ [][ pc = "activation" =>
             /\ lm35ReadingsArray' =
                  [lm35ReadingsArray EXCEPT ![lm35SampleIndex]
                                               = lm35Samples'[Len(lm35Samples')]]
             /\ lm35SampleIndex' =
                  (lm35SampleIndex + 1) % NUMBER_OF_AVG_SAMPLES ]_vars

\* the window has moved on from 60 degrees to 50, 50, ..., 0: the zeros of
\* the pre-fill are long gone and the newest sample is at the index before
C16_Witness ==
    /\ pc = "deactivation"
    /\ Len(lm35Samples) = NUMBER_OF_AVG_SAMPLES
    /\ lm35Samples[NUMBER_OF_AVG_SAMPLES] = Cold
    /\ \A i \in 1 .. (NUMBER_OF_AVG_SAMPLES - 1) : lm35Samples[i] = Fifty
    /\ overTempDetectorState = ON
    /\ lm35SampleIndex = 1

----------------------------------------------------------------------------
(* C17: the live over-temperature flag is recomputed in every tick as      *)
(* tempC > 50, strictly, with tempC = mean * 3.3 / 0.01: after every       *)
(* alarmActivationUpdate it is true iff the window mean times 330 is more  *)
(* than 50.  So a window of identical samples of 60 degrees makes it true, *)
(* a mean of exactly 50 degrees leaves it false, and it is false again as  *)
(* soon as the mean is no longer above the threshold.                      *)

C17_Identical(sample) ==
    /\ Len(lm35Samples') = NUMBER_OF_AVG_SAMPLES
    /\ \A i \in 1 .. NUMBER_OF_AVG_SAMPLES : lm35Samples'[i] = sample

C17_OverTempStrict ==
    [][ pc = "activation" =>
          LET mean == lm35ReadingsAverage'
          IN  /\ overTempDetector' = (mean[1] * 330 > 50 * mean[2])
              /\ C17_Identical(Sixty) => overTempDetector' = ON
              /\ C17_Identical(Fifty) => overTempDetector' = OFF
              /\ lm35TempC'[1] = 50 * lm35TempC'[2]
                    => overTempDetector' = OFF ]_vars

\* the flag has fallen back: the alarm was armed by over temperature, and
\* now the window is at exactly 50 degrees
C17_Witness ==
    /\ pc = "deactivation"
    /\ Len(lm35Samples) = NUMBER_OF_AVG_SAMPLES
    /\ \A i \in 1 .. NUMBER_OF_AVG_SAMPLES : lm35Samples[i] = Fifty
    /\ overTempDetector = OFF
    /\ ARMED /\ overTempDetectorState = ON

----------------------------------------------------------------------------
(* C18: the reporting commands are read-only with respect to the alarm.    *)
(* A step of uartTask that reads '1', '2', '3', 'p', 'P', 'c', 'C', 'f',   *)
(* 'F' or a byte that is no command leaves the alarm state, the latch      *)
(* flags, the attempt counter, the code, the blink accumulator, the three  *)
(* LEDs and the siren unchanged, reads that one byte only and ends the     *)
(* uartTask of the tick: no second command is dispatched in the tick.      *)

C18_Reporting(c) == c \notin {"4", "5"}

C18_ReadOnly ==
    /\ [][ (pc = "uart" /\ uartRx' # <<>> /\ C18_Reporting(uartRx'[1])) =>
             /\ UNCHANGED <<alarmState, gasDetectorState, overTempDetectorState,
                            numberOfIncorrectCodes, codeSequence,
                            accumulatedTimeAlarm, leds, sirenPin>>
             /\ Len(uartRx') = 1
             /\ pc' = "loop" ]_vars
    /\ [][ pc = "loop" => (pc' = "activation" /\ uartRx' = <<>>) ]_vars

\* 'p' has read the potentiometer while the alarm is ARMED after two
\* failed entries
C18_Witness ==
    /\ pc = "loop"
    /\ uartRx = <<"p">> /\ potentiometerReading = Half
    /\ ARMED /\ numberOfIncorrectCodes = 2 /\ leds[1] = ON

----------------------------------------------------------------------------
(* C19: in every reachable state, if the alarm is ARMED then at least one  *)
(* of the two latch flags is true; so whenever alarmActivationUpdate adds  *)
(* to the blink accumulator of an ARMED alarm it compares it against one   *)
(* of the three cadence constants.                                         *)

C19_ArmedHasLatch ==
    ARMED => (gasDetectorState = ON \/ overTempDetectorState = ON)

\* armed by over temperature alone, which has gone since
C19_Witness ==
    /\ pc = "uart"
    /\ ARMED /\ ~gasDetectorState /\ overTempDetectorState
    /\ ~overTempDetector /\ mq2 = HIGH /\ ~alarmTestButtonState

----------------------------------------------------------------------------
(* C20: the blink accumulator is bounded: at the end of every tick         *)
(* accumulatedTimeAlarm is a multiple of 10 in the range 0..990, for any   *)
(* sequence of sensor inputs, changes of the latch combination, disarms    *)
(* and re-arms.                                                            *)

C20_AccumulatorBounded ==
    pc = "loop" => /\ accumulatedTimeAlarm \in 0 .. 990
                   /\ accumulatedTimeAlarm % 10 = 0

\* 990 ms into a cycle with gas only, after a disarm and a re-arm that did
\* not reset the accumulator
C20_Witness ==
    /\ pc = "loop"
    /\ accumulatedTimeAlarm = 990
    /\ ARMED /\ gasDetectorState /\ ~overTempDetectorState
    /\ buttonsPressed = codeSequence

====
